---------------------------- MODULE Spec2Model ----------------------------
(***************************************************************************)
(* A model of addon/index.js of ember-array-observers: mergeArrays,        *)
(* joinedArray, mergedArray with instanceScoped, arrayMemberObserver and   *)
(* nestedArrayObserver, and the alternate variant of the last two.         *)
(*                                                                         *)
(* JavaScript arrays are objects with identity: the model keeps them in a  *)
(* heap (array id -> sequence of elements), so that two references to the  *)
(* same array alias.  JavaScript strings are sequences of one-character    *)
(* strings, <<>> being the empty string "".  Indices of notifications are  *)
(* JavaScript's (0-based); sequences are TLA+'s (1-based).                 *)
(***************************************************************************)
EXTENDS Integers, Sequences, FiniteSets

VARIABLES
    heap,         \* array id -> contents of that array object
    lastOp,       \* history: the operation performed by the last step
    ret,          \* the value returned by the last operation
    keyValue,     \* owner -> the value stored at its dependent key (an array id)
    defaultValue, \* joinedArray's closure variable `defaultValue`
    defaultSeen,  \* history: who cached defaultValue, and that array's contents then
    phase,        \* owner -> "new" (before init), "ready" (attached) or "failed"
    previousArray,\* owner -> arrayMemberObserver's closure variable `previousArray`
    hooks,        \* array id -> the owners of the array observers registered on it,
                  \*   one entry per observer object, in the order of registration
    notes,        \* the added/removed calls made during the last step, in order
    observerCache,\* nestedArrayObserver's closure variable `observerCache`
    innerObservers,\* inner array id -> the owners of the '[]' observers registered
                  \*   on it, one entry per bound function, in the order of registration
    calls,        \* the calls of the user's observerFn made during the last step
    scoped,       \* owner -> mergedArray's closure variable `source` of that
                  \*   instance and the cached value of its computed property
    balance       \* history: owner -> element -> the number of `added` calls made
                  \*   for it so far minus the number of `removed` calls

----------------------------------------------------------------------------
(* Bounds *)

\* longest array the inputs hold
MaxLen == 2

\* most tokens in a string assigned to a joinedArray view
MaxTokens == 2

\* most elements one in-place mutation inserts
MaxInsert == 1

\* most array observers registered on one array
MaxHooks == 2

----------------------------------------------------------------------------
(* JavaScript values *)

\* the strings the arrays of the merge inputs are drawn from; <<>> is "" (falsy)
Elems == { <<>>, <<"a">>, <<"A">>, <<"b">> }

\* !!v for a string v: only the empty string is falsy
IsTruthy(v) == v # <<>>

SeqsUpTo(S, n) == UNION { [1..k -> S] : k \in 0..n }

Range(s) == { s[i] : i \in 1..Len(s) }

Min(S) == CHOOSE x \in S : \A y \in S : x <= y

----------------------------------------------------------------------------
(* Ember's MutableArray primitives on a heap *)

\* pushObject(obj): append
pushObject(h, a, obj) == [h EXCEPT ![a] = Append(@, obj)]

\* removeObject(obj): remove every occurrence of obj
removeObject(h, a, obj) ==
    [h EXCEPT ![a] = SelectSeq(@, LAMBDA x : x # obj)]

----------------------------------------------------------------------------
(* mergeArrays *)

Lower(c) == IF c = "A" THEN "a" ELSE IF c = "B" THEN "b" ELSE c

\* the comparators of the model: "eq" is the default (a === b), "ci" is a
\* caller-supplied comparator (case-insensitive equality of strings)
Comparators == { "eq", "ci" }

comparator(cmp, a, b) ==
    IF cmp = "eq" THEN a = b
    ELSE /\ Len(a) = Len(b)
         /\ \A i \in 1..Len(a) : Lower(a[i]) = Lower(b[i])

\* a.find(comparator.bind(this, item)): the first element x of a with
\* comparator(item, x), as a sequence of length one, or <<>> for undefined
find(a, cmp, item) ==
    LET hits == { i \in 1..Len(a) : comparator(cmp, item, a[i]) }
    IN  IF hits = {} THEN <<>> ELSE << a[Min(hits)] >>

\* the truthiness of find's result, which is what `!original.find(...)` tests:
\* undefined is falsy, and so is a found element that is itself falsy
FoundTruthy(r) == r # <<>> /\ IsTruthy(r[1])

\* update.forEach(item => { if (!original.find(cmp(item, .))) original.pushObject(item) })
\* forEach reads the length once (len) and visits index k only if it still exists
RECURSIVE pushMissing(_, _, _, _, _, _)
pushMissing(h, original, update, cmp, k, len) ==
    IF k > len THEN h
    ELSE IF k > Len(h[update]) THEN pushMissing(h, original, update, cmp, k + 1, len)
    ELSE LET item == h[update][k]
             hit  == find(h[original], cmp, item)
             h2   == IF ~FoundTruthy(hit) THEN pushObject(h, original, item) ELSE h
         IN  pushMissing(h2, original, update, cmp, k + 1, len)

\* original.forEach(item => { if (!update.find(cmp(item, .))) original.removeObject(item) })
\* iterates the array it removes from: no snapshot is taken
RECURSIVE removeStale(_, _, _, _, _, _)
removeStale(h, original, update, cmp, k, len) ==
    IF k > len THEN h
    ELSE IF k > Len(h[original]) THEN removeStale(h, original, update, cmp, k + 1, len)
    ELSE LET item == h[original][k]
             hit  == find(h[update], cmp, item)
             h2   == IF ~FoundTruthy(hit) THEN removeObject(h, original, item) ELSE h
         IN  removeStale(h2, original, update, cmp, k + 1, len)

\* the heap after mergeArrays(original, update, comparator)
mergeArrays(h, original, update, cmp) ==
    LET h1 == pushMissing(h, original, update, cmp, 1, Len(h[update]))
    IN  removeStale(h1, original, update, cmp, 1, Len(h1[original]))

\* `return original`
mergeArraysResult(original, update) == original

----------------------------------------------------------------------------
(* SpecMerge: mergeArrays applied to bounded inputs.  The heap holds two   *)
(* arrays; update may be the same object as original.                      *)

MergeIds == { 1, 2 }

vars == << heap, lastOp, ret, keyValue, defaultValue, defaultSeen,
          phase, previousArray, hooks, notes, observerCache, innerObservers, calls,
          scoped, balance >>

nestedVars == << observerCache, innerObservers, calls >>

IdleNested ==
    /\ observerCache = << >>
    /\ innerObservers = << >>
    /\ calls = << >>

observerVars == << phase, previousArray, hooks, notes >>

IdleObserver ==
    /\ phase = << >>
    /\ previousArray = << >>
    /\ hooks = << >>
    /\ notes = << >>

viewVars == << defaultValue, defaultSeen >>

IdleScoped == scoped = << >>

IdleBalance == balance = << >>

joinedVars == << keyValue, viewVars >>

\* the values of the variables a specification does not use
Unset == 0
NoOwner == "none"
IdleJoined2 ==
    /\ defaultValue = Unset
    /\ defaultSeen = [ owner |-> NoOwner, contents |-> << >> ]

IdleJoined ==
    /\ keyValue = << >>
    /\ IdleJoined2

NoOp == [ kind |-> "none" ]

InitMerge ==
    /\ heap \in [MergeIds -> SeqsUpTo(Elems, MaxLen)]
    /\ lastOp = NoOp
    /\ ret = 0
    /\ IdleJoined
    /\ IdleObserver
    /\ IdleNested
    /\ IdleScoped
    /\ IdleBalance

MergeCall(original, update, cmp) ==
    /\ lastOp.kind = "none"
    /\ heap' = mergeArrays(heap, original, update, cmp)
    /\ ret' = mergeArraysResult(original, update)
    /\ lastOp' = [ kind |-> "merge", original |-> original, update |-> update,
                   cmp |-> cmp, before |-> heap ]
    /\ UNCHANGED << joinedVars, observerVars, nestedVars, scoped, balance >>

NextMerge ==
    \E original \in MergeIds, update \in MergeIds, cmp \in Comparators :
        MergeCall(original, update, cmp)

SpecMerge == InitMerge /\ [][NextMerge]_vars

Merged == lastOp.kind = "merge"

\* some element of s matches item under the comparator, item bound first
HasMatch(cmp, item, s) == \E j \in 1..Len(s) : comparator(cmp, item, s[j])

\* C1: after mergeArrays(O, U, cmp) every element of U has a match in O,
\* every element left in O has a match in U, and the result is O itself.
C1_MergeCorrect ==
    Merged =>
        /\ \A i \in 1..Len(heap[lastOp.update]) :
               HasMatch(lastOp.cmp, heap[lastOp.update][i], heap[lastOp.original])
        /\ \A i \in 1..Len(heap[lastOp.original]) :
               HasMatch(lastOp.cmp, heap[lastOp.original][i], heap[lastOp.update])
        /\ ret = lastOp.original

\* C3: mergeArrays(O, O) leaves O with the same elements in the same order,
\* falsy elements and duplicates included.
C3_MergeIdempotent ==
    (Merged /\ lastOp.original = lastOp.update) =>
        heap[lastOp.original] = lastOp.before[lastOp.original]

----------------------------------------------------------------------------
(* joinedArray(dependentArrayKey, separator): the computed property's get  *)
(* and set.  Ember's caching of the computed value is not modelled: it is  *)
(* invalidated by every change of the array (dependent key `key.[]`), and  *)
(* the getter's only side effect is the first assignment of defaultValue.  *)

Owners == { "o1", "o2" }

\* the separator the view is built with, one character
Separator == ","

\* the elements of the arrays behind a view, and the tokens assigned to it
Tokens == { <<>>, <<"a">>, <<"b">> }

\* Array.prototype.join(separator) of an array of strings
RECURSIVE join(_)
join(a) ==
    IF Len(a) = 0 THEN <<>>
    ELSE IF Len(a) = 1 THEN a[1]
    ELSE a[1] \o <<Separator>> \o join(Tail(a))

\* String.prototype.split(separator): cur is the token being read, acc those read
RECURSIVE splitFrom(_, _, _, _)
splitFrom(s, i, cur, acc) ==
    IF i > Len(s) THEN Append(acc, cur)
    ELSE IF s[i] = Separator THEN splitFrom(s, i + 1, <<>>, Append(acc, cur))
    ELSE splitFrom(s, i + 1, Append(cur, s[i]), acc)

split(s) == splitFrom(s, 1, <<>>, <<>>)

\* Ember.isEmpty of a string
isEmpty(s) == Len(s) = 0

\* the array `value.split(separator)` or `[]` creates lives here during a set
Fresh == 3

\* the array of each owner instance
OwnArray(o) == IF o = "o1" THEN 1 ELSE 2

\* the values a caller assigns: a string, or an absent value (null/undefined)
Absent == [ isString |-> FALSE, str |-> << >> ]
Str(s) == [ isString |-> TRUE, str |-> s ]
Assignable == { Absent } \cup { Str(join(t)) : t \in SeqsUpTo(Tokens, MaxTokens) }

\* `if (!defaultValue) defaultValue = this.get(dependentArrayKey) || []`; the key
\* of every owner holds an array here, so the reference of that array is cached
cacheDefault(dv, o) == IF dv = Unset THEN keyValue[o] ELSE dv

cacheSeen(o) ==
    IF defaultValue = Unset
    THEN [ owner |-> o, contents |-> heap[keyValue[o]] ]
    ELSE defaultSeen

\* get(): `return value && value.join(separator)`
JoinedGet(o) ==
    /\ defaultValue' = cacheDefault(defaultValue, o)
    /\ defaultSeen' = cacheSeen(o)
    /\ ret' = join(heap[keyValue[o]])
    /\ lastOp' = [ kind |-> "get", owner |-> o, value |-> Absent,
                   before |-> heap[keyValue[o]] ]
    /\ UNCHANGED << heap, keyValue, observerVars, nestedVars, scoped, balance >>

\* the array newItems refers to, and the heap holding it
newItemsId(value, dv) == IF value.isString THEN Fresh ELSE dv

newItemsHeap(h, value) ==
    IF ~value.isString THEN h
    ELSE IF isEmpty(value.str) THEN [h EXCEPT ![Fresh] = << >>]
    ELSE [h EXCEPT ![Fresh] = split(value.str)]

\* set(key, value): merge with the default mergeFn, return the join of the result
JoinedSet(o, value) ==
    LET dv       == cacheDefault(defaultValue, o)
        oldItems == keyValue[o]
        newItems == newItemsId(value, dv)
        merged   == mergeArrays(newItemsHeap(heap, value), oldItems, newItems, "eq")
        result   == mergeArraysResult(oldItems, newItems)
    IN  /\ defaultValue' = dv
        /\ defaultSeen' = cacheSeen(o)
        /\ ret' = join(merged[result])
        \* the array built for newItems is dropped when set returns
        /\ heap' = [merged EXCEPT ![Fresh] = << >>]
        /\ lastOp' = [ kind |-> "set", owner |-> o, value |-> value,
                       before |-> heap[keyValue[o]] ]
        /\ UNCHANGED << keyValue, observerVars, nestedVars, scoped, balance >>

InitJoined ==
    /\ \E a1 \in SeqsUpTo(Tokens, MaxLen) : heap = << a1, << >>, << >> >>
    /\ keyValue = [ o \in Owners |-> OwnArray(o) ]
    /\ defaultValue = Unset
    /\ defaultSeen = [ owner |-> NoOwner, contents |-> << >> ]
    /\ lastOp = [ kind |-> "none", owner |-> NoOwner, value |-> Absent, before |-> << >> ]
    /\ ret = << >>
    /\ IdleObserver
    /\ IdleNested
    /\ IdleScoped
    /\ IdleBalance

\* SpecJoined follows the view of one owner instance
NextJoined ==
    \E o \in { "o1" } :
        \/ JoinedGet(o)
        \/ \E value \in Assignable : JoinedSet(o, value)

SpecJoined == InitJoined /\ [][NextJoined]_vars

\* the array behind the view of the owner the last operation was about
Behind == heap[keyValue[lastOp.owner]]

\* s without the elements after the first of each value
RECURSIVE Dedup(_)
Dedup(s) ==
    IF s = << >> THEN << >>
    ELSE LET front == Dedup(SubSeq(s, 1, Len(s) - 1))
         IN  IF s[Len(s)] \in Range(front) THEN front ELSE Append(front, s[Len(s)])

\* before merged towards tokens: the kept elements in their order, then the new ones
MergedTo(before, tokens) ==
    SelectSeq(before, LAMBDA x : x \in Range(tokens))
        \o Dedup(SelectSeq(tokens, LAMBDA x : x \notin Range(before)))

\* C2: setting the view to the empty string leaves the same array object
\* empty, and the setter's result and the next get are the empty string.
C2_EmptyStringEmpties ==
    (lastOp.kind = "set" /\ lastOp.value = Str(<< >>)) =>
        /\ Behind = << >>
        /\ ret = << >>
        /\ join(Behind) = << >>

\* C8: get returns the join of the array; after a set to a string s the same
\* array holds exactly the tokens of s.split(separator), the tokens it already
\* had in their previous order and the new ones after them, and get returns
\* its join; setting the view to what get returns leaves the array unchanged.
C8_JoinedRoundTrip ==
    /\ lastOp.kind = "get" => ret = join(Behind) /\ Behind = lastOp.before
    /\ (lastOp.kind = "set" /\ lastOp.value.isString /\ ~isEmpty(lastOp.value.str)) =>
           /\ Behind = MergedTo(lastOp.before, split(lastOp.value.str))
           /\ ret = join(Behind)
    /\ (lastOp.kind = "set" /\ lastOp.value = Str(join(lastOp.before))) =>
           Behind = lastOp.before

\* C9: once an owner's get or set has cached the default, setting its view to
\* an absent value makes its array hold what it held when the default was cached.
C9_DefaultRestored ==
    (lastOp.kind = "set" /\ ~lastOp.value.isString /\ defaultSeen.owner = lastOp.owner) =>
        Behind = defaultSeen.contents

\* SpecJoinedTwo: two instances of one class, each with its own array behind
\* the view; `defaultValue` belongs to the one joinedArray(...) call of the
\* class definition.  The assigned strings have at most one token.
InitJoinedTwo ==
    /\ \E a1 \in SeqsUpTo(Tokens, MaxLen), a2 \in SeqsUpTo(Tokens, MaxLen) :
           /\ a1 # a2
           /\ heap = << a1, a2, << >> >>
    /\ keyValue = [ o \in Owners |-> OwnArray(o) ]
    /\ defaultValue = Unset
    /\ defaultSeen = [ owner |-> NoOwner, contents |-> << >> ]
    /\ lastOp = [ kind |-> "none", owner |-> NoOwner, value |-> Absent, before |-> << >> ]
    /\ ret = << >>
    /\ IdleObserver
    /\ IdleNested
    /\ IdleScoped
    /\ IdleBalance

NextJoinedTwo ==
    \E o \in Owners :
        \/ JoinedGet(o)
        \/ \E value \in { Absent } \cup { Str(join(t)) : t \in SeqsUpTo(Tokens, 1) } :
               JoinedSet(o, value)

SpecJoinedTwo == InitJoinedTwo /\ [][NextJoinedTwo]_vars

\* C20: when an instance sets its view to an absent value, the default merged
\* into its array is the one this instance cached, its own array, and the
\* array gains no element from the other instance.
C20_DefaultPrivate ==
    (lastOp.kind = "set" /\ ~lastOp.value.isString) =>
        /\ defaultSeen.owner = lastOp.owner
        /\ defaultValue = keyValue[lastOp.owner]
        /\ Range(Behind) \subseteq Range(lastOp.before)

----------------------------------------------------------------------------
(* mergedArray(key) defined through instanceScoped, with the default       *)
(* mergeFn (mergeArrays).  Arrays are allocated in the heap, a sequence:   *)
(* a new array takes the next id.  Ember caches the value of a computed    *)
(* property: what get returned, or what set returned, until the next set.  *)

\* the property of an instance before its initialisation
NoProperty == [ source |-> Unset, cache |-> Unset ]

\* the factory is called once for the class: every instance gets the source
\* of the first one (instanceScoped with a fault)
classScoped(sc, h) ==
    IF \E o \in DOMAIN sc : sc[o].source # Unset
    THEN [ source |-> Min({ sc[o].source : o \in { x \in DOMAIN sc : sc[x].source # Unset } }),
           cache |-> Unset ]
    ELSE [ source |-> Len(h) + 1, cache |-> Unset ]

\* instanceScoped: on('init') calls computedPropertyFactory(), whose closure
\* holds `let source = Ember.A()`, a new array
instanceScoped(sc, h) == [ source |-> Len(h) + 1, cache |-> Unset ]

\* on('init') of instance o: Ember.defineProperty(this, key, factory())
ScopedInit(o) ==
    /\ scoped[o] = NoProperty
    /\ \E prop \in { instanceScoped(scoped, heap) } :
           /\ scoped' = [scoped EXCEPT ![o] = prop]
           /\ heap' = IF prop.source > Len(heap) THEN Append(heap, << >>) ELSE heap
    /\ ret' = Unset
    /\ lastOp' = [ kind |-> "scope", owner |-> o, update |-> Unset, before |-> heap,
                   got |-> Unset ]
    /\ UNCHANGED << joinedVars, observerVars, nestedVars, balance >>

\* the value get returns: the cached one, or `return source`
mergedGet(prop) == IF prop.cache # Unset THEN prop.cache ELSE prop.source

\* get()
MergedGet(o) ==
    /\ scoped[o] # NoProperty
    /\ ret' = mergedGet(scoped[o])
    /\ scoped' = [scoped EXCEPT ![o].cache = mergedGet(scoped[o])]
    /\ lastOp' = [ kind |-> "mget", owner |-> o, update |-> Unset, before |-> heap,
                   got |-> mergedGet(scoped[o]) ]
    /\ UNCHANGED << heap, joinedVars, observerVars, nestedVars, balance >>

\* set(key, update): `return mergeFn(source, update)`, which Ember caches
MergedSet(o, update) ==
    /\ scoped[o] # NoProperty
    /\ heap' = mergeArrays(heap, scoped[o].source, update, "eq")
    /\ ret' = mergeArraysResult(scoped[o].source, update)
    /\ scoped' = [scoped EXCEPT ![o].cache = mergeArraysResult(scoped[o].source, update)]
    /\ lastOp' = [ kind |-> "mset", owner |-> o, update |-> update, before |-> heap,
                   got |-> mergedGet(scoped[o]) ]
    /\ UNCHANGED << joinedVars, observerVars, nestedVars, balance >>

\* SpecScoped: two instances of a class with a mergedArray property; the heap
\* starts with one array of the caller, and an update is any array of the heap
InitScoped ==
    /\ heap \in [1..1 -> SeqsUpTo(Tokens, MaxLen)]
    /\ scoped = [ o \in Owners |-> NoProperty ]
    /\ lastOp = [ kind |-> "none", owner |-> NoOwner, update |-> Unset,
                  before |-> << >>, got |-> Unset ]
    /\ ret = Unset
    /\ IdleJoined
    /\ IdleObserver
    /\ IdleNested
    /\ IdleBalance

NextScoped ==
    \E o \in Owners :
        \/ ScopedInit(o)
        \/ MergedGet(o)
        \/ \E update \in DOMAIN heap : MergedSet(o, update)

SpecScoped == InitScoped /\ [][NextScoped]_vars

\* the instances whose property is defined
Scoped == { o \in Owners : scoped[o] # NoProperty }

\* C15: two instances hold distinct source arrays; a set on one instance
\* changes neither which array get returns on another instance nor what that
\* array holds; on one instance get and set return the same array object, the
\* instance's source, every time.
C15_InstanceScoped ==
    /\ \A o1 \in Scoped, o2 \in Scoped :
           o1 # o2 => scoped[o1].source # scoped[o2].source
    /\ \A o \in Scoped : mergedGet(scoped[o]) = scoped[o].source
    /\ lastOp.kind \in { "mget", "mset" } =>
           /\ ret = scoped[lastOp.owner].source
           /\ ret = lastOp.got
    /\ lastOp.kind = "mset" =>
           \A o \in Scoped \ { lastOp.owner } :
               heap[mergedGet(scoped[o])] = lastOp.before[mergedGet(scoped[o])]

C15_Witness ==
    /\ lastOp.kind = "mset"
    /\ Scoped = Owners
    /\ heap[ret] # lastOp.before[ret]
    /\ Len(heap[ret]) = 2
    /\ \E o \in Owners \ { lastOp.owner } :
           /\ heap[scoped[o].source] # << >>
           /\ lastOp.update = scoped[o].source

----------------------------------------------------------------------------
(* arrayMemberObserver(dependentArrayKey, {added, removed})                *)
(*                                                                         *)
(* Ember delivers observers and array observers synchronously, so each     *)
(* handler is one step.  The callbacks are the caller's: the model records *)
(* every call in notes and assumes they do not mutate the observed array.  *)

\* the elements each array object is given: array 1 holds x's and y's, array 2 z's
ItemsIn(a) == IF a = 1 THEN { "x", "y" } ELSE { "z" }

\* the array objects of the program
ArrayIds == { 1, 2 }

\* a value at the dependent key that is not an array (null)
Null == 0

\* an array-like object that is not a native array (an Ember.ArrayProxy)
ArrayLike == 3

\* Array.isArray of a value at the dependent key: native arrays only
isArray(v) == v \in ArrayIds

\* Ember.isArray of a value at the dependent key: native arrays and array-likes
emberIsArray(v) == v \in ArrayIds \cup { ArrayLike }

\* no index argument is passed
NoIndex == -1

\* the target of an array observer: the object handed to addArrayObserver, or
\* undefined when the call passes none
NoTarget == "undefined"

Note(o, kind, item, index) ==
    [ owner |-> o, kind |-> kind, item |-> item, index |-> index ]

\* previousArray.map(observers.removed.bind(this)): removed(item, index, array)
removedAll(o, a) == [ i \in 1..Len(a) |-> Note(o, "removed", a[i], i - 1) ]

\* addedAll with a fault: the members are visited from the last to the first
addedAllBackwards(o, a) ==
    [ i \in 1..Len(a) |-> Note(o, "added", a[Len(a) + 1 - i], NoIndex) ]

\* forEach((member) => observers.added.call(this, member)): the item alone
addedAll(o, a) == [ i \in 1..Len(a) |-> Note(o, "added", a[i], NoIndex) ]

\* arrayWillChange(array, start, removedCount), array being the array before
\* the mutation: removed(item, i + start) for array.slice(start, start + removedCount)
arrayWillChange(o, a, start, removedCount) ==
    IF removedCount > 0
    THEN [ i \in 1..removedCount |-> Note(o, "removed", a[start + i], (i - 1) + start) ]
    ELSE << >>

\* arrayDidChange(array, start, removedCount, addedCount), array being the array
\* after the mutation: added(item, i + start) for array.slice(start, start + addedCount)
arrayDidChange(o, a, start, addedCount) ==
    IF addedCount > 0
    THEN [ i \in 1..addedCount |-> Note(o, "added", a[start + i], (i - 1) + start) ]
    ELSE << >>

\* Ember's addArrayObserver(target): registers target's arrayWillChange and
\* arrayDidChange on the array; every call here passes a new object
addArrayObserver(hk, a, o) == [hk EXCEPT ![a] = Append(@, o)]

\* s without its first element equal to o
RECURSIVE RemoveFirst(_, _)
RemoveFirst(s, o) ==
    IF s = << >> THEN << >>
    ELSE IF Head(s) = o THEN Tail(s)
    ELSE << Head(s) >> \o RemoveFirst(Tail(s), o)

\* Ember's removeArrayObserver(target): removes the listeners registered for
\* that target, and nothing when no listener has it
removeArrayObserver(hk, a, o, target) ==
    IF target = NoTarget THEN hk ELSE [hk EXCEPT ![a] = RemoveFirst(@, o)]

\* observeNotes with a fault: the previous array's elements are not reported removed
observeNotesAddedOnly(h, o, v, prev) ==
    IF isArray(v) THEN addedAll(o, h[v]) ELSE << >>

\* observeDependentArray: the calls it makes, given the key's value v
observeNotes(h, o, v, prev) ==
    IF isArray(v)
    THEN (IF prev # Unset THEN removedAll(o, h[prev]) ELSE << >>) \o addedAll(o, h[v])
    ELSE << >>

\* observePrevious with a fault: a non-array value forgets the previous array
observePreviousCleared(v, prev) == IF isArray(v) THEN v ELSE Unset

\* observeDependentArray: `previousArray = this.get(dependentArrayKey)`
observePrevious(v, prev) == IF isArray(v) THEN v ELSE prev

\* observeDependentArray: `previousArray.removeArrayObserver()`, which passes no
\* target, then addArrayObserver({...}) on the new array
observeHooks(hk, o, v, prev) ==
    IF isArray(v)
    THEN addArrayObserver(
             IF prev # Unset THEN removeArrayObserver(hk, prev, o, NoTarget) ELSE hk,
             v, o)
    ELSE hk

\* the on('init') handler: the assert, observeDependentArray(), addObserver(key, ...)
InitInstance(o) ==
    /\ phase[o] = "new"
    /\ IF emberIsArray(keyValue[o])
       THEN /\ notes' = observeNotes(heap, o, keyValue[o], previousArray[o])
            /\ previousArray' =
                   [previousArray EXCEPT ![o] = observePrevious(keyValue[o], @)]
            /\ hooks' = observeHooks(hooks, o, keyValue[o], previousArray[o])
            /\ phase' = [phase EXCEPT ![o] = "ready"]
       ELSE /\ phase' = [phase EXCEPT ![o] = "failed"]
            /\ notes' = << >>
            /\ UNCHANGED << previousArray, hooks >>
    /\ lastOp' = [ kind |-> "init", owner |-> o ]
    /\ UNCHANGED << heap, keyValue, ret, viewVars, scoped >>

\* this.set(dependentArrayKey, v) with another value: the key's observer runs
\* observeDependentArray
Reassign(o, v) ==
    /\ phase[o] = "ready"
    /\ v # keyValue[o]
    /\ isArray(v) => Len(hooks[v]) < MaxHooks
    /\ keyValue' = [keyValue EXCEPT ![o] = v]
    /\ notes' = observeNotes(heap, o, v, previousArray[o])
    /\ previousArray' = [previousArray EXCEPT ![o] = observePrevious(v, @)]
    /\ hooks' = observeHooks(hooks, o, v, previousArray[o])
    /\ lastOp' = [ kind |-> "assign", owner |-> o, from |-> keyValue[o], to |-> v,
                   prev |-> previousArray[o], hooks |-> hooks ]
    /\ UNCHANGED << heap, phase, ret, viewVars, scoped >>

\* Ember's replace(idx, amt, objects), which every in-place mutation goes through
replace(c, start, amt, objs) ==
    SubSeq(c, 1, start) \o objs \o SubSeq(c, start + amt + 1, Len(c))

\* the calls of '@array:before': each registered observer's arrayWillChange
RECURSIVE willNotes(_, _, _, _)
willNotes(hk, c, start, amt) ==
    IF hk = << >> THEN << >>
    ELSE arrayWillChange(Head(hk), c, start, amt) \o willNotes(Tail(hk), c, start, amt)

\* the calls of '@array:change': each registered observer's arrayDidChange
RECURSIVE didNotes(_, _, _, _)
didNotes(hk, c, start, added) ==
    IF hk = << >> THEN << >>
    ELSE arrayDidChange(Head(hk), c, start, added) \o didNotes(Tail(hk), c, start, added)

\* mutationNotes with a fault: the removals are reported after the additions
mutationNotesAddedFirst(hk, before, after, start, amt, added) ==
    didNotes(hk, after, start, added) \o willNotes(hk, before, start, amt)

\* arrayContentWillChange, the mutation, arrayContentDidChange
mutationNotes(hk, before, after, start, amt, added) ==
    willNotes(hk, before, start, amt) \o didNotes(hk, after, start, added)

\* an in-place mutation of array a: remove amt elements at start, insert objs;
\* a is a native array or an array-like, whose array observers are told alike
Mutate(a, start, amt, objs) ==
    /\ start + amt <= Len(heap[a])
    /\ amt > 0 \/ objs # << >>
    /\ Len(heap[a]) - amt + Len(objs) <= MaxLen
    /\ heap' = [heap EXCEPT ![a] = replace(@, start, amt, objs)]
    /\ notes' = mutationNotes(hooks[a], heap[a], heap'[a], start, amt, Len(objs))
    /\ lastOp' = [ kind |-> "mutate", arr |-> a, start |-> start, amt |-> amt,
                   objs |-> objs, before |-> heap[a], watched |-> previousArray ]
    /\ UNCHANGED << keyValue, phase, previousArray, hooks, ret, viewVars, scoped >>

\* SpecObserver: one owner instance, whose dependent key holds an array or null
Observers == { "o1" }

InitObserver ==
    /\ \E c1 \in SeqsUpTo(ItemsIn(1), MaxLen), c2 \in SeqsUpTo(ItemsIn(2), MaxLen) :
           heap = << c1, c2 >>
    /\ keyValue \in [Observers -> ArrayIds \cup { Null }]
    /\ phase = [ o \in Observers |-> "new" ]
    /\ previousArray = [ o \in Observers |-> Unset ]
    /\ hooks = [ a \in ArrayIds |-> << >> ]
    /\ notes = << >>
    /\ lastOp = NoOp
    /\ ret = 0
    /\ IdleJoined2
    /\ IdleNested
    /\ IdleScoped
    /\ IdleBalance

\* the callbacks of SpecObserver are the caller's own: their calls are recorded
\* in notes and they touch nothing of this model; the history variable balance
\* is kept by SpecBalance alone
NextObserver ==
    \/ \E o \in Observers : InitInstance(o) /\ UNCHANGED << nestedVars, balance >>
    \/ \E o \in Observers, v \in ArrayIds \cup { Null } :
           Reassign(o, v) /\ UNCHANGED << nestedVars, balance >>
    \/ \E a \in ArrayIds, start \in 0..MaxLen, amt \in 0..MaxLen :
           \E objs \in SeqsUpTo(ItemsIn(a), MaxInsert) :
               Mutate(a, start, amt, objs) /\ UNCHANGED << nestedVars, balance >>

SpecObserver == InitObserver /\ [][NextObserver]_vars

\* the owner instance SpecObserver follows
TheOwner == "o1"

\* the notes of the given kind, in order
NotesOf(kind) == SelectSeq(notes, LAMBDA n : n.kind = kind)

ItemsOf(ns) == [ i \in 1..Len(ns) |-> ns[i].item ]

\* C4: at initialisation `added` is invoked exactly once per element of the
\* array at the dependent key, in index order, and nothing is notified before
\* these calls: no mutation notifies while the instance is not initialised.
C4_InitialAttach ==
    /\ (lastOp.kind = "init" /\ phase[TheOwner] = "ready") =>
           /\ NotesOf("added") = notes
           /\ ItemsOf(notes) = heap[keyValue[TheOwner]]
    /\ phase[TheOwner] = "new" => notes = << >>

C4_Witness ==
    /\ lastOp.kind = "init"
    /\ phase[TheOwner] = "ready"
    /\ Len(notes) = 2
    /\ notes[1].item # notes[2].item

\* the assignment of an array to a key whose watched array is another array
Replaced ==
    /\ lastOp.kind = "assign"
    /\ isArray(lastOp.from)
    /\ lastOp.prev = lastOp.from
    /\ isArray(lastOp.to)

\* the last step mutated the array the owner's key holds and watches
MutatedWatched ==
    /\ lastOp.kind = "mutate"
    /\ phase[TheOwner] = "ready"
    /\ lastOp.arr = keyValue[TheOwner]

\* C5: when the key is reassigned from a watched array P to another array N,
\* `removed` is invoked once per element of P, then `added` once per element of
\* N in order, and from then on in-place mutations of N are notified: each
\* element removed from it and each element inserted into it is reported.
C5_Reattach ==
    /\ Replaced =>
           /\ Len(notes) = Len(heap[lastOp.from]) + Len(heap[lastOp.to])
           /\ ItemsOf(NotesOf("removed")) = heap[lastOp.from]
           /\ ItemsOf(NotesOf("added")) = heap[lastOp.to]
           /\ notes = NotesOf("removed") \o NotesOf("added")
    /\ MutatedWatched =>
           /\ \A i \in 1..lastOp.amt :
                  \E k \in 1..Len(notes) :
                      /\ notes[k].kind = "removed"
                      /\ notes[k].item = lastOp.before[lastOp.start + i]
                      /\ notes[k].index = lastOp.start + i - 1
           /\ \A i \in 1..Len(lastOp.objs) :
                  \E k \in 1..Len(notes) :
                      /\ notes[k].kind = "added"
                      /\ notes[k].item = lastOp.objs[i]
                      /\ notes[k].index = lastOp.start + i - 1

C5_Witness ==
    /\ Replaced
    /\ Len(heap[lastOp.from]) = 2
    /\ Len(heap[lastOp.to]) = 2
    /\ heap[lastOp.from] # heap[lastOp.to]

\* C6: an owner has at most one array with an active mutation hook, the one it
\* watches; a mutation of a formerly watched array invokes no callback, and a
\* mutation of the watched array invokes each callback once per affected element.
C6_SingleHook ==
    /\ \A a \in ArrayIds :
           /\ Len(hooks[a]) <= 1
           /\ hooks[a] # << >> => a = previousArray[TheOwner]
    /\ (lastOp.kind = "mutate" /\ lastOp.arr # lastOp.watched[TheOwner]) =>
           notes = << >>
    /\ (lastOp.kind = "mutate" /\ lastOp.arr = lastOp.watched[TheOwner]) =>
           /\ Len(NotesOf("removed")) = lastOp.amt
           /\ Len(NotesOf("added")) = Len(lastOp.objs)

\* C7: the `removed` calls of one in-place mutation all come before its
\* `added` calls, and the calls made during a mutation are that mutation's
\* own (its removed slice, its inserted slice): none is deferred to a later one.
C7_RemovedBeforeAdded ==
    lastOp.kind = "mutate" =>
        /\ \A i \in 1..Len(notes), j \in 1..Len(notes) :
               (notes[i].kind = "removed" /\ notes[j].kind = "added") => i < j
        /\ \A k \in 1..Len(notes) :
               /\ notes[k].index >= lastOp.start
               /\ notes[k].kind = "removed" =>
                      /\ notes[k].index < lastOp.start + lastOp.amt
                      /\ notes[k].item = lastOp.before[notes[k].index + 1]
               /\ notes[k].kind = "added" =>
                      /\ notes[k].index < lastOp.start + Len(lastOp.objs)
                      /\ notes[k].item = lastOp.objs[notes[k].index - lastOp.start + 1]
        /\ lastOp.watched[TheOwner] = lastOp.arr =>
               /\ lastOp.amt > 0 => NotesOf("removed") # << >>
               /\ lastOp.objs # << >> => NotesOf("added") # << >>

C7_Witness ==
    /\ lastOp.kind = "mutate"
    /\ lastOp.amt = 2
    /\ Len(lastOp.objs) = 1
    /\ Len(NotesOf("removed")) >= 2
    /\ Len(NotesOf("added")) >= 1

\* C14: assigning a non-array value to the key after the attach invokes
\* neither callback and leaves the remembered previous array and the mutation
\* hooks as they are; when an array is assigned later, `removed` is invoked for
\* each element of the remembered array, then `added` for each element of the
\* new one, which becomes the remembered array.
C14_NullIsNoOp ==
    /\ (lastOp.kind = "assign" /\ ~isArray(lastOp.to)) =>
           /\ notes = << >>
           /\ previousArray[TheOwner] = lastOp.prev
           /\ hooks = lastOp.hooks
    /\ (lastOp.kind = "assign" /\ ~isArray(lastOp.from) /\ isArray(lastOp.to)) =>
           /\ lastOp.prev # Unset
           /\ ItemsOf(NotesOf("removed")) = heap[lastOp.prev]
           /\ ItemsOf(NotesOf("added")) = heap[lastOp.to]
           /\ notes = NotesOf("removed") \o NotesOf("added")
           /\ previousArray[TheOwner] = lastOp.to

C14_Witness ==
    /\ lastOp.kind = "assign"
    /\ lastOp.from = Null
    /\ isArray(lastOp.to)
    /\ lastOp.prev # lastOp.to
    /\ Len(heap[lastOp.prev]) = 2
    /\ heap[lastOp.to] # << >>

\* the call n passed the index at which array contents c holds its element
IndexIn(c, n) ==
    /\ n.index \in 0..(Len(c) - 1)
    /\ c[n.index + 1] = n.item

\* C16: every `added` and `removed` call receives the element and its index:
\* in the array before the mutation, or the previous array, for `removed`; in
\* the array after the mutation, or the newly attached array, for `added`.
C16_IndexPassed ==
    /\ (lastOp.kind = "init" /\ phase[TheOwner] = "ready") =>
           \A k \in 1..Len(notes) : IndexIn(heap[keyValue[TheOwner]], notes[k])
    /\ (lastOp.kind = "assign" /\ isArray(lastOp.to)) =>
           \A k \in 1..Len(notes) :
               IF notes[k].kind = "removed"
               THEN IndexIn(heap[lastOp.prev], notes[k])
               ELSE IndexIn(heap[lastOp.to], notes[k])
    /\ lastOp.kind = "mutate" =>
           \A k \in 1..Len(notes) :
               IF notes[k].kind = "removed"
               THEN IndexIn(lastOp.before, notes[k])
               ELSE IndexIn(heap[lastOp.arr], notes[k])

\* SpecAttach: one owner instance whose dependent key holds a native array,
\* an array-like object or null
Holders == ArrayIds \cup { ArrayLike }

InitAttach ==
    /\ \E c1 \in SeqsUpTo(ItemsIn(1), MaxLen), c2 \in SeqsUpTo(ItemsIn(2), MaxLen),
          c3 \in SeqsUpTo(ItemsIn(ArrayLike), MaxLen) :
           heap = << c1, c2, c3 >>
    /\ keyValue \in [Observers -> Holders \cup { Null }]
    /\ phase = [ o \in Observers |-> "new" ]
    /\ previousArray = [ o \in Observers |-> Unset ]
    /\ hooks = [ a \in Holders |-> << >> ]
    /\ notes = << >>
    /\ lastOp = NoOp
    /\ ret = 0
    /\ IdleJoined2
    /\ IdleNested
    /\ IdleScoped
    /\ IdleBalance

NextAttach ==
    \/ \E o \in Observers : InitInstance(o) /\ UNCHANGED << nestedVars, balance >>
    \/ \E o \in Observers, v \in Holders \cup { Null } :
           Reassign(o, v) /\ UNCHANGED << nestedVars, balance >>
    \/ \E a \in Holders, start \in 0..MaxLen, amt \in 0..MaxLen :
           \E objs \in SeqsUpTo(ItemsIn(a), MaxInsert) :
               Mutate(a, start, amt, objs) /\ UNCHANGED << nestedVars, balance >>

SpecAttach == InitAttach /\ [][NextAttach]_vars

\* C13: initialisation fails exactly when the key's value is not array-like;
\* after a failure no callback is invoked, no mutation hook is registered and
\* the key is not observed; every array-like value is observed: at
\* initialisation `added` is called for each of its elements and a mutation
\* hook is registered on it.
C13_AttachCheck ==
    /\ lastOp.kind = "init" =>
           (phase[TheOwner] = "failed" <=> ~emberIsArray(keyValue[TheOwner]))
    /\ phase[TheOwner] = "failed" =>
           /\ notes = << >>
           /\ \A a \in DOMAIN hooks : hooks[a] = << >>
           /\ lastOp.kind # "assign"
    /\ (lastOp.kind = "init" /\ phase[TheOwner] = "ready") =>
           /\ ItemsOf(notes) = heap[keyValue[TheOwner]]
           /\ hooks[keyValue[TheOwner]] # << >>

\* SpecBalance: SpecObserver with the history variable balance, in which the
\* calls of every step are counted
Items == ItemsIn(1) \cup ItemsIn(2)

\* the number of calls of the given kind made for element it in the calls ns
CallsFor(ns, kind, it) ==
    Cardinality({ k \in 1..Len(ns) : ns[k].kind = kind /\ ns[k].item = it })

Tally ==
    balance' = [ o \in Observers |->
                   [ it \in Items |->
                       balance[o][it]
                           + CallsFor(SelectSeq(notes', LAMBDA n : n.owner = o), "added", it)
                           - CallsFor(SelectSeq(notes', LAMBDA n : n.owner = o), "removed", it) ] ]

InitBalance ==
    /\ \E c1 \in SeqsUpTo(ItemsIn(1), MaxLen), c2 \in SeqsUpTo(ItemsIn(2), MaxLen) :
           heap = << c1, c2 >>
    /\ keyValue \in [Observers -> ArrayIds \cup { Null }]
    /\ phase = [ o \in Observers |-> "new" ]
    /\ previousArray = [ o \in Observers |-> Unset ]
    /\ hooks = [ a \in ArrayIds |-> << >> ]
    /\ notes = << >>
    /\ balance = [ o \in Observers |-> [ it \in Items |-> 0 ] ]
    /\ lastOp = NoOp
    /\ ret = 0
    /\ IdleJoined2
    /\ IdleNested
    /\ IdleScoped

NextBalance ==
    \/ \E o \in Observers : InitInstance(o) /\ Tally /\ UNCHANGED nestedVars
    \/ \E o \in Observers, v \in ArrayIds \cup { Null } :
           Reassign(o, v) /\ Tally /\ UNCHANGED nestedVars
    \/ \E a \in ArrayIds, start \in 0..MaxLen, amt \in 0..MaxLen :
           \E objs \in SeqsUpTo(ItemsIn(a), MaxInsert) :
               Mutate(a, start, amt, objs) /\ Tally /\ UNCHANGED nestedVars

SpecBalance == InitBalance /\ [][NextBalance]_vars

\* the number of times array contents c holds element it
Occurrences(c, it) == Cardinality({ k \in 1..Len(c) : c[k] = it })

\* C19: for every element, the number of `added` calls minus the number of
\* `removed` calls made so far is the number of times the array most recently
\* attached holds it.
C19_Balance ==
    \A o \in Observers :
        phase[o] = "ready" =>
            \A it \in Items :
                balance[o][it] = Occurrences(heap[previousArray[o]], it)

----------------------------------------------------------------------------
(* nestedArrayObserver(dependentArrayKey, observerFn): arrayMemberObserver *)
(* over the outer array, with the added and removed callbacks below.  The  *)
(* elements of the outer arrays are inner arrays.  What an inner array     *)
(* holds decides nothing here: a change of its content is one step, which  *)
(* runs the '[]' observers registered on it.                               *)

\* the inner array objects
InnerIds == { "i1", "i2" }

\* the inner arrays each outer array is given: i2 may be a member of both
InnerIn(a) == IF a = 1 THEN { "i1", "i2" } ELSE { "i2" }

\* the state the callbacks work on
Nested(cache, inner, made) == [ cache |-> cache, inner |-> inner, made |-> made ]

\* added(nestedArray): cache the bound observer, register it on the inner
\* array, and call it at once
nestedAdded(st, o, target) ==
    Nested(Append(st.cache, [ parent |-> o, target |-> target ]),
           [st.inner EXCEPT ![target] = Append(@, o)],
           Append(st.made, [ owner |-> o, target |-> target ]))

\* s without its element at index k
DropAt(s, k) == SubSeq(s, 1, k - 1) \o SubSeq(s, k + 1, Len(s))

\* removed(nestedArray): find the entry of this owner and target; if there is
\* one, deregister its observer and drop the entry
nestedRemoved(st, o, target) ==
    LET hits == { k \in 1..Len(st.cache) :
                      st.cache[k].target = target /\ st.cache[k].parent = o }
    IN  IF hits = {} THEN st
        ELSE Nested(DropAt(st.cache, Min(hits)),
                    [st.inner EXCEPT ![target] = RemoveFirst(@, o)],
                    st.made)

\* the callbacks run for each call arrayMemberObserver makes, in order
RECURSIVE runCallbacks(_, _)
runCallbacks(st, ns) ==
    IF ns = << >> THEN st
    ELSE LET n == Head(ns)
         IN  runCallbacks(IF n.kind = "added" THEN nestedAdded(st, n.owner, n.item)
                          ELSE nestedRemoved(st, n.owner, n.item),
                          Tail(ns))

\* the effect of the callbacks of the step that made the calls notes'
NestedCallbacks ==
    \E st \in { runCallbacks(Nested(observerCache, innerObservers, << >>), notes') } :
        /\ observerCache' = st.cache
        /\ innerObservers' = st.inner
        /\ calls' = st.made

\* the content of inner array i changes: each '[]' observer registered on it runs
InnerChanged(i) ==
    /\ calls' = [ k \in 1..Len(innerObservers[i]) |->
                     [ owner |-> innerObservers[i][k], target |-> i ] ]
    /\ notes' = << >>
    /\ lastOp' = [ kind |-> "inner", arr |-> i ]
    /\ UNCHANGED << heap, keyValue, phase, previousArray, hooks, ret, viewVars,
                    observerCache, innerObservers, scoped, balance >>

\* SpecNested: one owner instance whose key holds an outer array or null
InitNested ==
    /\ \E c1 \in SeqsUpTo(InnerIn(1), MaxLen), c2 \in SeqsUpTo(InnerIn(2), MaxLen) :
           heap = << c1, c2 >>
    /\ keyValue \in [Observers -> ArrayIds \cup { Null }]
    /\ phase = [ o \in Observers |-> "new" ]
    /\ previousArray = [ o \in Observers |-> Unset ]
    /\ hooks = [ a \in ArrayIds |-> << >> ]
    /\ notes = << >>
    /\ observerCache = << >>
    /\ innerObservers = [ i \in InnerIds |-> << >> ]
    /\ calls = << >>
    /\ lastOp = NoOp
    /\ ret = 0
    /\ IdleJoined2
    /\ IdleScoped
    /\ IdleBalance

NextNested ==
    \/ \E o \in Observers : InitInstance(o) /\ NestedCallbacks /\ UNCHANGED balance
    \/ \E o \in Observers, v \in ArrayIds \cup { Null } :
           Reassign(o, v) /\ NestedCallbacks /\ UNCHANGED balance
    \/ \E a \in ArrayIds, start \in 0..MaxLen, amt \in 0..MaxLen :
           \E objs \in SeqsUpTo(InnerIn(a), MaxInsert) :
               Mutate(a, start, amt, objs) /\ NestedCallbacks /\ UNCHANGED balance
    \/ \E i \in InnerIds : InnerChanged(i)

SpecNested == InitNested /\ [][NextNested]_vars

\* the inner arrays the calls of the last step were bound to, in order
CalledFor == [ k \in 1..Len(calls) |-> calls[k].target ]

\* C10: whenever inner arrays become members of the observed outer array (at
\* initialisation, by an insertion, by a replacement of the outer array), the
\* user's observer function is called exactly once for each of them in that step.
C10_CalledOnceOnAttach ==
    /\ (lastOp.kind = "init" /\ phase[TheOwner] = "ready") =>
           CalledFor = heap[keyValue[TheOwner]]
    /\ (lastOp.kind = "assign" /\ isArray(lastOp.to)) =>
           CalledFor = heap[lastOp.to]
    /\ (lastOp.kind = "mutate" /\ phase[TheOwner] = "ready"
            /\ lastOp.arr = keyValue[TheOwner]) =>
           CalledFor = lastOp.objs

\* C11: the observer cache holds at most one entry for each pair of an owner
\* instance and an inner array, also when the inner array occurs more than
\* once in the outer array or is added again after a replacement.
C11_OneEntryPerPair ==
    \A k1 \in 1..Len(observerCache), k2 \in 1..Len(observerCache) :
        (/\ observerCache[k1].parent = observerCache[k2].parent
         /\ observerCache[k1].target = observerCache[k2].target) => k1 = k2


\* the inner arrays that are members of the outer array the owner watches
Members ==
    IF phase[TheOwner] = "ready" /\ previousArray[TheOwner] # Unset
    THEN Range(heap[previousArray[TheOwner]])
    ELSE { }

\* C17: once the owner is attached, a content change of an inner array invokes
\* the owner's observer function exactly when the inner array is a member of
\* the owner's outer array; an inner array that is no longer a member has no
\* observer registered for the owner and no cache entry.
C17_NestedLifecycle ==
    phase[TheOwner] = "ready" =>
        /\ lastOp.kind = "inner" => (calls # << >> <=> lastOp.arr \in Members)
        /\ \A i \in InnerIds \ Members :
               /\ innerObservers[i] = << >>
               /\ \A k \in 1..Len(observerCache) : observerCache[k].target # i

----------------------------------------------------------------------------
(* The alternate variant of the file (lines 248-290): arrayMemberObserver  *)
(* is one function, run at initialisation and, as an observer of           *)
(* `key.[]`, after every change of the key or of the content of its array; *)
(* nestedArrayObserver looks its cache up by target alone.                 *)
(*                                                                         *)
(* Ember's replace(idx, amt, objects) on an array sends '@array:before',   *)
(* changes the array, notifies the property '[]' (which runs the observers *)
(* of `key.[]`), then sends '@array:change' to the listeners registered at *)
(* that moment, each with (array, start, removeAmt, addAmt).               *)

\* most array observer objects the alternate variant registers on one array
MaxAltHooks == 3

\* the value of `this` inside a callback: the owner instance (hook 0) when
\* the callback is called from the initialisation/observer function, the
\* array observer object (the hook-th one registered) when it is called from
\* that object's arrayWillChange or arrayDidChange
Self(o, hook) == [ owner |-> o, hook |-> hook ]

\* Array.prototype.slice(start, end), indices 0-based, end exclusive
slice(c, start, end) == SubSeq(c, start + 1, IF end < Len(c) THEN end ELSE Len(c))

\* the state the alternate callbacks work on: the cache, the '[]' observers on
\* the inner arrays, whether a TypeError was thrown, whether a lookup found no
\* entry, and the calls made so far
AltState(cache, inner, threw, missed, done) ==
    [ cache |-> cache, inner |-> inner, threw |-> threw, missed |-> missed,
      done |-> done ]

\* added(nestedArray): cache {target, observer}, register the observer for `this`
altAdded(st, self, target, index) ==
    AltState(Append(st.cache, [ self |-> self, target |-> target ]),
             [st.inner EXCEPT ![target] = Append(@, self)],
             st.threw, st.missed,
             Append(st.done, Note(self, "added", target, index)))

\* removed(nestedArray): the first entry with the target, whoever cached it;
\* `cached.observer` throws a TypeError when there is none; removeObserver
\* matches the listener by (this, cached.observer), so it removes one only
\* when the entry was cached with the same `this`; the entry is dropped
altRemoved(st, self, target, index) ==
    LET hits == { k \in 1..Len(st.cache) : st.cache[k].target = target }
        done == Append(st.done, Note(self, "removed", target, index))
    IN  IF hits = {}
        THEN AltState(st.cache, st.inner, TRUE, TRUE, done)
        ELSE LET cached == st.cache[Min(hits)]
             IN  AltState(DropAt(st.cache, Min(hits)),
                          IF cached.self = self
                          THEN [st.inner EXCEPT ![target] = RemoveFirst(@, self)]
                          ELSE st.inner,
                          st.threw, st.missed, done)

\* array.forEach(callback) up to the first exception: callback(item, i)
RECURSIVE altEach(_, _, _, _, _)
altEach(st, self, kind, items, i) ==
    IF st.threw \/ i > Len(items) THEN st
    ELSE altEach(IF kind = "added" THEN altAdded(st, self, items[i], i - 1)
                 ELSE altRemoved(st, self, items[i], i - 1),
                 self, kind, items, i + 1)

\* this.get(key).forEach((member) => observers.added.call(this, member))
RECURSIVE altMembers(_, _, _, _)
altMembers(st, self, items, i) ==
    IF i > Len(items) THEN st
    ELSE altMembers(altAdded(st, self, items[i], NoIndex), self, items, i + 1)

\* arrayWillChange(array, start, addedCount, removedCount) of the observer
\* object self: array.slice(start, removedCount).forEach(removed.bind(this))
altArrayWillChange(st, self, array, start, addedCount, removedCount) ==
    altEach(st, self, "removed", slice(array, start, removedCount), 1)

\* arrayDidChange(array, start, addedCount) of the observer object self:
\* array.slice(start, addedCount).forEach(added.bind(this))
altArrayDidChange(st, self, array, start, addedCount) ==
    altEach(st, self, "added", slice(array, start, addedCount), 1)

\* '@array:before' sent to the observer objects hk of an array, in order; an
\* exception ends the delivery
RECURSIVE altWill(_, _, _, _, _, _)
altWill(st, hk, array, start, removeAmt, addAmt) ==
    IF st.threw \/ hk = << >> THEN st
    ELSE altWill(altArrayWillChange(st, Head(hk), array, start, removeAmt, addAmt),
                 Tail(hk), array, start, removeAmt, addAmt)

\* '@array:change' sent to the observer objects hk of an array, in order
RECURSIVE altDid(_, _, _, _, _)
altDid(st, hk, array, start, removeAmt) ==
    IF st.threw \/ hk = << >> THEN st
    ELSE altDid(altArrayDidChange(st, Head(hk), array, start, removeAmt),
                Tail(hk), array, start, removeAmt)

\* the number of array observer objects registered so far (none is ever removed)
HookCount(hk) == Len(hk[1]) + Len(hk[2])

\* the owner instances of the alternate variant, and those whose observer of
\* `key.[]` runs when the content of array a changes
AltOwners == << "o1", "o2" >>

watchers(a) ==
    SelectSeq(AltOwners, LAMBDA o : phase[o] = "ready" /\ keyValue[o] = a)

\* the function of arrayMemberObserver run for owner o: added for every
\* member, then addArrayObserver of a new observer object
altObserve(sh, o) ==
    [ st |-> altMembers(sh.st, Self(o, 0), sh.heap[keyValue[o]], 1),
      hooks |-> addArrayObserver(sh.hooks, keyValue[o],
                                 Self(o, HookCount(sh.hooks) + 1)),
      heap |-> sh.heap ]

\* the observers of `key.[]` of the owners os, in order
RECURSIVE altObserveAll(_, _)
altObserveAll(sh, os) ==
    IF os = << >> THEN sh
    ELSE altObserveAll(altObserve(sh, Head(os)), Tail(os))

AltStart == AltState(observerCache, innerObservers, FALSE, FALSE, << >>)

\* on('init'): the function runs for the new instance
AltInit(o) ==
    /\ phase[o] = "new"
    /\ \E sh \in { altObserve([ st |-> AltStart, hooks |-> hooks, heap |-> heap ], o) } :
           /\ observerCache' = sh.st.cache
           /\ innerObservers' = sh.st.inner
           /\ notes' = sh.st.done
           /\ hooks' = sh.hooks
    /\ phase' = [phase EXCEPT ![o] = "ready"]
    /\ calls' = << >>
    /\ lastOp' = [ kind |-> "init", owner |-> o ]
    /\ UNCHANGED << heap, keyValue, previousArray, ret, viewVars, scoped, balance >>

\* replace(start, amt, objs) on array a: '@array:before'; unless that threw,
\* the change, the observers of `key.[]`, and '@array:change'
altReplace(a, start, amt, objs) ==
    LET w == altWill(AltStart, hooks[a], heap[a], start, amt, Len(objs))
    IN  IF w.threw
        THEN [ heap |-> heap, hooks |-> hooks, st |-> w ]
        ELSE LET sh == altObserveAll(
                           [ st |-> w, hooks |-> hooks,
                             heap |-> [heap EXCEPT ![a] = replace(@, start, amt, objs)] ],
                           watchers(a))
             IN  [ heap |-> sh.heap, hooks |-> sh.hooks,
                   st |-> altDid(sh.st, sh.hooks[a], sh.heap[a], start, amt) ]

\* an in-place mutation of outer array a under the alternate variant
AltMutate(a, start, amt, objs) ==
    /\ start + amt <= Len(heap[a])
    /\ amt > 0 \/ objs # << >>
    /\ Len(heap[a]) - amt + Len(objs) <= MaxLen
    /\ Len(hooks[a]) + Len(watchers(a)) <= MaxAltHooks
    /\ \E r \in { altReplace(a, start, amt, objs) } :
           /\ heap' = r.heap
           /\ hooks' = r.hooks
           /\ observerCache' = r.st.cache
           /\ innerObservers' = r.st.inner
           /\ notes' = r.st.done
           /\ lastOp' = [ kind |-> "mutate", arr |-> a, start |-> start, amt |-> amt,
                          objs |-> objs, before |-> heap[a],
                          threw |-> r.st.threw, missed |-> r.st.missed,
                          cacheBefore |-> observerCache ]
    /\ calls' = << >>
    /\ UNCHANGED << keyValue, phase, previousArray, ret, viewVars, scoped, balance >>

\* the inner arrays the outer arrays of SpecAlt are given: one, which both share
AltInnerIn(a) == { "i2" }

\* SpecAlt: two owner instances of one class under the alternate variant; the
\* key of o1 holds outer array 1 and the key of o2 outer array 2, for good
InitAlt ==
    /\ \E c1 \in SeqsUpTo(AltInnerIn(1), MaxLen), c2 \in SeqsUpTo(AltInnerIn(2), MaxLen) :
           heap = << c1, c2 >>
    /\ keyValue = [ o \in Owners |-> OwnArray(o) ]
    /\ phase = [ o \in Owners |-> "new" ]
    /\ previousArray = [ o \in Owners |-> Unset ]
    /\ hooks = [ a \in ArrayIds |-> << >> ]
    /\ notes = << >>
    /\ observerCache = << >>
    /\ innerObservers = [ i \in InnerIds |-> << >> ]
    /\ calls = << >>
    /\ lastOp = NoOp
    /\ ret = 0
    /\ IdleJoined2
    /\ IdleScoped
    /\ IdleBalance

NextAlt ==
    \/ \E o \in Owners : AltInit(o)
    \/ \E a \in ArrayIds, start \in 0..MaxLen, amt \in 0..MaxLen :
           \E objs \in SeqsUpTo(AltInnerIn(a), MaxInsert) :
               AltMutate(a, start, amt, objs)
    \/ \E i \in InnerIds : InnerChanged(i)

SpecAlt == InitAlt /\ [][NextAlt]_vars

\* C12: when `removed` is invoked for an inner array that has no matching cache
\* entry, no error is raised (and the cache and the registered observers are
\* left as they are).
C12_LookupMissSilent ==
    (lastOp.kind = "mutate" /\ lastOp.missed) => ~lastOp.threw

\* the cache entries made for owner o, in order
EntriesOf(cache, o) == SelectSeq(cache, LAMBDA e : e.self.owner = o)

\* the last step removed inner array i from the outer array of owner o
RemovedFrom(o, i) ==
    /\ lastOp.kind = "mutate"
    /\ phase[o] = "ready"
    /\ lastOp.arr = keyValue[o]
    /\ i \in Range(SubSeq(lastOp.before, lastOp.start + 1, lastOp.start + lastOp.amt))

\* C18: when two owners hold the same inner array in their outer arrays and it
\* is removed from the outer array of one of them, the entry and the observer
\* of that owner are discarded once the inner array is no member any more, and
\* the entries of the other owner stay in the cache, its observer registered.
C18_CrossOwnerIsolation ==
    \A o \in Owners, p \in Owners, i \in InnerIds :
        (/\ o # p
         /\ RemovedFrom(o, i)
         /\ phase[p] = "ready"
         /\ i \in Range(heap[keyValue[p]])) =>
            /\ EntriesOf(observerCache, p) = EntriesOf(lastOp.cacheBefore, p)
            /\ \E k \in 1..Len(innerObservers[i]) : innerObservers[i][k].owner = p
            /\ i \notin Range(heap[keyValue[o]]) =>
                   /\ \A k \in 1..Len(observerCache) :
                          ~(observerCache[k].target = i /\ observerCache[k].self.owner = o)
                   /\ \A k \in 1..Len(innerObservers[i]) : innerObservers[i][k].owner # o

=============================================================================
